---- MODULE Spec2Model ----
(***************************************************************************)
(* Sky Guide AR: observer tracking (SkyEngine), gaze matching              *)
(* (GazeAndHandController), highlight state (SkyRenderer), info panel      *)
(* (InfoPanel) and the frame driver (SkyGuideMain).                        *)
(*                                                                         *)
(* Units.  Angles are integer degrees (the code's radians), except the     *)
(* compass heading, which is kept in hundredths of a degree because the    *)
(* smoothing factor 0.15 produces fractions.  Sines and cosines are in     *)
(* ten-thousandths.  Times are tenths of a second.  The wall clock counts       *)
(* sidereal steps of SiderealRate degrees.                                 *)
(*                                                                         *)
(* Geometry.  Every catalogue entry has declination 0 and every pointing   *)
(* direction is taken on the celestial equator as well, the one great      *)
(* circle that carries fixed stars for every latitude and sidereal time.   *)
(* A direction on it is identified by its hour angle.  Its altitude is     *)
(* asin(cos lat * cos ha), rounded down to whole degrees, which preserves  *)
(* the two altitude tests of the code (alt < 0 and alt < -5 degrees).  Its *)
(* azimuth is a one-to-one function of the hour angle, and the haversine   *)
(* distance between two directions of the circle is the arc between them,  *)
(* so the second horizontal coordinate of the model is the hour angle and  *)
(* the distance is the difference of the two, exactly.                     *)
(***************************************************************************)
EXTENDS Integers, Sequences, FiniteSets, TLC

\* ---------------------------------------------------------------- bounds
MaxFrames == 4
MaxHold == 9
MaxClock == 1
MaxPending == 1
MaxHeadingSamples == 1

\* ------------------------------------------------------ program constants
GAZE_THRESHOLD_RAD == 8
GAZE_HOLD_DELAY == 5
SUB_HORIZON_MARGIN == 5
SPHERE_RADIUS == 500
POSITION_UPDATE_INTERVAL == 2
GPS_POLL_PERIOD == 100
HEADING_ALPHA == 15
TWO_PI == 360
SiderealRate == 5
FALLBACK_LATITUDE == 49
FALLBACK_LONGITUDE == 2
ONE == 10000
\* magnitudeToAlpha: 0.15 and 1.0, in 1500ths
ALPHA_FLOOR == 225
ALPHA_CEILING == 1500
\* magnitudeToScale: 0.5 and 3.0, in hundred-thousandths
SCALE_FLOOR == 50000
SCALE_CEILING == 300000
\* the magnitude that maps to both ceilings, -1.5, in hundredths
BRIGHTEST_MAG == -150
\* the precision the centroid is stored with, in millionths of a radian
CENTROID_UNIT == 100

\* ----------------------------------------------------------------- inputs
DeltaTimes == {3, 100}
\* position samples, <<latitude, longitude>> in degrees
GpsFixes == {<<0, 0>>, <<60, -5>>}
RawHeadings == {100, 35900}
\* pointing directions, as hour angles on the celestial equator
Thetas == {0, 8, 20, 92, 96}

\* --------------------------------------------------------------- catalogue
CONSTELLATIONS ==
  << [abbr |-> "ORI", name |-> "Orion",  centroidRA |-> 0,   centroidDec |-> 0],
     [abbr |-> "TAU", name |-> "Taurus", centroidRA |-> 348, centroidDec |-> 0],
     [abbr |-> "LEO", name |-> "Leo",    centroidRA |-> 270, centroidDec |-> 0] >>

STARS ==
  << [hip |-> 24436, ra |-> 0,   dec |-> 0, mag |-> 18,  bv |-> -3,  name |-> "Rigel", con |-> "ORI"],
     [hip |-> 21421, ra |-> 330, dec |-> 0, mag |-> 87,  bv |-> 154, name |-> "Aldebaran", con |-> "TAU"] >>

Abbrs == {CONSTELLATIONS[i].abbr : i \in 1..Len(CONSTELLATIONS)}

\* ------------------------------------------------------------- arithmetic
Abs(x) == IF x < 0 THEN -x ELSE x

Min(a, b) == IF a < b THEN a ELSE b

Max(a, b) == IF a > b THEN a ELSE b

\* JavaScript's % : the result takes the sign of the dividend
JsMod(a, b) == IF a >= 0 THEN a % b ELSE -((-a) % b)

\* an angle reduced to (-180, 180], for the periodic trig functions
Wrap180(a) == LET m == a % 360 IN IF m > 180 THEN m - 360 ELSE m

SinTab ==
  << 0, 175, 349, 523, 698, 872, 1045, 1219, 1392, 1564, 1736, 1908, 2079,
     2250, 2419, 2588, 2756, 2924, 3090, 3256, 3420, 3584, 3746, 3907, 4067, 4226,
     4384, 4540, 4695, 4848, 5000, 5150, 5299, 5446, 5592, 5736, 5878, 6018, 6157,
     6293, 6428, 6561, 6691, 6820, 6947, 7071, 7193, 7314, 7431, 7547, 7660, 7771,
     7880, 7986, 8090, 8192, 8290, 8387, 8480, 8572, 8660, 8746, 8829, 8910, 8988,
     9063, 9135, 9205, 9272, 9336, 9397, 9455, 9511, 9563, 9613, 9659, 9703, 9744,
     9781, 9816, 9848, 9877, 9903, 9925, 9945, 9962, 9976, 9986, 9994, 9998, 10000 >>

\* Math.sin and Math.cos of whole degrees, in ten-thousandths
SinOf ==
  [m \in 0..359 |->
     IF m <= 90 THEN SinTab[m + 1]
     ELSE IF m <= 180 THEN SinTab[180 - m + 1]
     ELSE IF m <= 270 THEN -SinTab[m - 180 + 1]
     ELSE -SinTab[360 - m + 1]]

Sin(d) == SinOf[d % 360]

Cos(d) == SinOf[(d + 90) % 360]

\* Math.asin of ten-thousandths, rounded down to whole degrees
AsinOf ==
  [s \in -ONE..ONE |->
     CHOOSE d \in -90..90 : SinOf[d % 360] <= s /\ (d = 90 \/ SinOf[(d + 1) % 360] > s)]

Asin(s) == AsinOf[s]

\* ------------------------------------------------------------- AstroMath
julianDate(date) == date

gmst(jd) == JsMod(JsMod(SiderealRate * jd, TWO_PI) + TWO_PI, TWO_PI)

\* mutant: one remainder only
localSiderealTimeOnce(gmstRad, longitudeRad) ==
  JsMod(gmstRad + longitudeRad, TWO_PI)

localSiderealTime(gmstRad, longitudeRad) ==
  JsMod(JsMod(gmstRad + longitudeRad, TWO_PI) + TWO_PI, TWO_PI)

\* <<altitude, position on the celestial equator>>
equatorialToHorizontal(raRad, decRad, lstRad, latRad) ==
  LET ha == lstRad - raRad
      sinAlt == (Sin(latRad) * Sin(decRad)
                 + ((Cos(latRad) * Cos(decRad)) \div ONE) * Cos(ha)) \div ONE
      alt == Asin(Max(-ONE, Min(ONE, sinAlt)))
  IN <<alt, Wrap180(ha)>>

\* x = r cos(alt) sin(az) is the east component -r sin(ha); y = r sin(alt);
\* z = -r cos(alt) cos(az) is minus the north component, r sin(lat) cos(ha)
starCartesian(raRad, decRad, lstRad, latRad, radius) ==
  LET ha == lstRad - raRad
  IN << (-radius * Sin(ha)) \div ONE,
        (radius * ((Cos(latRad) * Cos(ha)) \div ONE)) \div ONE,
        (radius * ((Sin(latRad) * Cos(ha)) \div ONE)) \div ONE >>

\* mutant: no floor
FloorAtNone(floor, value) == value

\* Math.max(floor, value)
FloorAt(floor, value) == Max(floor, value)

\* mag in hundredths of a magnitude; the result in 1500ths:
\* 1.0 - (mag + 1.5) / 7.5 = (1200 - 2 mag) / 1500
magnitudeToAlpha(mag) ==
  FloorAt(ALPHA_FLOOR, ALPHA_CEILING - 2 * (mag - BRIGHTEST_MAG))

\* the result in hundred-thousandths: 3.0 - (mag + 1.5) * 0.385
magnitudeToScale(mag) ==
  FloorAt(SCALE_FLOOR, SCALE_CEILING - 385 * (mag - BRIGHTEST_MAG))

\* the haversine distance of two directions of one great circle is the arc
\* between them
angularDistanceAltAz(alt1, az1, alt2, az2) == Abs(Wrap180(az2 - az1))

\* current, target in hundredths of a degree, alpha in percent
\* mutant: the difference taken without the wraparound
WrapDiffNone(d0) == d0

WrapDiff(d0) ==
  LET d1 == IF d0 > 18000 THEN d0 - 36000 ELSE d0
  IN IF d1 < -18000 THEN d1 + 36000 ELSE d1

\* mutant: the result left as blended
RenormalizeNone(r0) == r0

Renormalize(r0) ==
  LET r1 == IF r0 < 0 THEN r0 + 36000 ELSE r0
  IN IF r1 >= 36000 THEN r1 - 36000 ELSE r1

smoothHeading(current, target, alpha) ==
  Renormalize(current + (alpha * WrapDiff(target - current)) \div 100)

\* ------------------------------------------------------------------ state
VARIABLES
  \* SkyEngine
  latitude, longitude, lstRadians, headingDeg, timestamp,
  initialized, rawHeadingDeg, starPositions,
  locationService,   \* "unset" before initLocation, then "live" or "null"
  gpsCooldown,
  gpsPending,        \* getCurrentPosition requests whose callback is due
  \* SkyRenderer
  highlightedConstellation,
  \* GazeAndHandController
  camera,            \* TRUE once init stored a camera object
  callbacks,         \* TRUE once init stored onSelected / onDeselected
  gestureModule,     \* TRUE when the pinch handlers were registered
  currentGazeConstellation, gazeHoldTime,
  \* InfoPanel
  panelReady,        \* infoPanelRoot, infoTextComponent and camera all set
  isVisible,
  \* SkyGuideMain
  started, frameCount,
  \* environment
  clock,             \* what new Date() / Date.now() returns
  headingSamples,    \* compass samples delivered so far
  \* record of what the last step did
  obs,
  \* the last call of a pure function: its name, arguments and result
  calc

engineVars == <<latitude, longitude, lstRadians, headingDeg, timestamp,
                initialized, rawHeadingDeg, starPositions,
                locationService, gpsCooldown, gpsPending>>
gazeVars == <<camera, callbacks, gestureModule, currentGazeConstellation,
              gazeHoldTime, highlightedConstellation>>
panelVars == <<panelReady, isVisible>>
mainVars == <<started, frameCount>>
envVars == <<clock, headingSamples>>
vars == <<engineVars, gazeVars, panelVars, mainVars, envVars, obs, calc>>

\* obs.hlCalls    arguments of the setHighlightedConstellation calls made
\* obs.deselects  number of onConstellationDeselected invocations made
\* obs.selects    arguments of the onConstellationSelected invocations
\* obs.gaze       how updateGaze ended: "none" (not called), "early",
\*                "below" (sub-horizon pointing) or "search"
\* obs.closest    closestAbbr after the centroid loop
\* obs.theta      the hour angle the camera pointed at
\* obs.prevCur, obs.prevHold  the matched code and dwell updateGaze found
\* obs.recomputed updateStarPositions got past its guard
\* obs.episodeCalls  setHighlightedConstellation(region) calls made since
\*                the matched code last changed
\* obs.lstLongitude  the longitude lstRadians was computed from
\* obs.lstComputed   updateStarPositions has assigned lstRadians
\* obs.allocs    number of position buffers allocated so far
\* obs.calls     the calls onUpdate made, in order
\* obs.dt        the elapsed time onUpdate passed to updateGaze
NoCalc == [fn |-> "none", args |-> <<>>, out |-> <<>>]

Quiet ==
  [obs EXCEPT !.hlCalls = <<>>, !.deselects = 0, !.selects = <<>>,
              !.gaze = "none", !.closest = "", !.theta = 0,
              !.prevCur = "", !.prevHold = 0, !.recomputed = FALSE,
              !.calls = <<>>, !.dt = 0]

Init ==
  /\ latitude = 0 /\ longitude = 0 /\ lstRadians = 0 /\ headingDeg = 0
  /\ timestamp = 0 /\ initialized = FALSE /\ rawHeadingDeg = 0
  /\ starPositions = <<>>
  /\ locationService = "unset" /\ gpsCooldown = 0 /\ gpsPending = 0
  /\ highlightedConstellation = ""
  /\ camera = FALSE /\ callbacks = FALSE /\ gestureModule = FALSE
  /\ currentGazeConstellation = "" /\ gazeHoldTime = 0
  /\ panelReady = FALSE /\ isVisible = FALSE
  /\ started = FALSE /\ frameCount = 0
  /\ clock = 0 /\ headingSamples = 0
  /\ obs = [hlCalls |-> <<>>, deselects |-> 0, selects |-> <<>>,
            gaze |-> "none", closest |-> "", theta |-> 0,
            prevCur |-> "", prevHold |-> 0,
            recomputed |-> FALSE, episodeCalls |-> 0,
            lstLongitude |-> 0, lstComputed |-> FALSE, allocs |-> 0,
            calls |-> <<>>, dt |-> 0]
  /\ calc = NoCalc

\* ------------------------------------------- GazeAndHandController.updateGaze
\* the camera's forward vector, un-rotated by the heading: its length and
\* the hour angle of the direction on the celestial equator it points at
CamForwards ==
  {[len |-> 1, ha |-> t] : t \in Thetas} \cup {[len |-> 0, ha |-> 0]}

\* the vertical component of that vector, for an observer at latRad
SkyY(camForward, latRad) ==
  camForward.len * ((Cos(latRad) * Cos(camForward.ha)) \div ONE)

\* mutant: a wider sub-horizon margin
BelowMarginWide(gazeAlt) == gazeAlt < -2 * SUB_HORIZON_MARGIN

BelowMargin(gazeAlt) == gazeAlt < -SUB_HORIZON_MARGIN

\* mutant: the horizon test dropped
BelowHorizonNever(cAlt) == FALSE

BelowHorizon(cAlt) == cAlt < 0

\* mutant: an inclusive comparison
CloserOrEqual(dist, closestDist) == dist <= closestDist

Closer(dist, closestDist) == dist < closestDist

RECURSIVE ClosestFrom(_, _, _, _, _, _, _)
ClosestFrom(i, closestAbbr, closestDist, gazeAlt, gazeAz, lstRad, latRad) ==
  IF i > Len(CONSTELLATIONS) THEN closestAbbr
  ELSE
    LET c == CONSTELLATIONS[i]
        h == equatorialToHorizontal(c.centroidRA, c.centroidDec, lstRad, latRad)
        dist == angularDistanceAltAz(gazeAlt, gazeAz, h[1], h[2])
    IN IF BelowHorizon(h[1])
       THEN ClosestFrom(i + 1, closestAbbr, closestDist, gazeAlt, gazeAz, lstRad, latRad)
       ELSE IF Closer(dist, closestDist)
       THEN ClosestFrom(i + 1, c.abbr, dist, gazeAlt, gazeAz, lstRad, latRad)
       ELSE ClosestFrom(i + 1, closestAbbr, closestDist, gazeAlt, gazeAz, lstRad, latRad)

\* mutant: clearGaze without its guard
ClearGazeGuardNone(cur) == TRUE

ClearGazeGuard(cur) == cur # ""

\* the gaze record: matched code, dwell, highlight, and what was emitted
GazeNow ==
  [cur |-> currentGazeConstellation, hold |-> gazeHoldTime,
   hl |-> highlightedConstellation, hlCalls |-> <<>>, deselects |-> 0,
   gaze |-> "early", closest |-> "", theta |-> 0,
   episodeCalls |-> obs.episodeCalls]

\* mutant: the deselect callback not invoked
NotifyDeselectedNever(hasCallback) == 0

\* the invocations of onConstellationDeselected one clearGaze makes
NotifyDeselected(hasCallback) == IF hasCallback THEN 1 ELSE 0

\* mutant: the highlight left on
clearGazeKeepHighlight(g) ==
  IF ClearGazeGuard(g.cur)
  THEN [g EXCEPT !.cur = "", !.hold = 0,
                 !.deselects = g.deselects + NotifyDeselected(callbacks),
                 !.episodeCalls = 0]
  ELSE g

clearGaze(g) ==
  IF ClearGazeGuard(g.cur)
  THEN [g EXCEPT !.cur = "", !.hold = 0, !.hl = "",
                 !.hlCalls = Append(g.hlCalls, ""),
                 !.deselects = g.deselects + NotifyDeselected(callbacks),
                 !.episodeCalls = 0]
  ELSE g

\* mutant: the dwell carried over to the new region
DwellOnSwitchCarry(oldHold, deltaTime) == oldHold

\* mutant: the installing tick's elapsed time counted
DwellOnSwitchAdd(oldHold, deltaTime) == deltaTime

DwellOnSwitch(oldHold, deltaTime) == 0

\* mutant: any dwell confirms
DwellReachedEarly(hold) == hold > 0

DwellReached(hold) == hold >= GAZE_HOLD_DELAY

\* mutant: the dwell never accumulated
AccumulateNone(hold, deltaTime) == hold

Accumulate(hold, deltaTime) == hold + deltaTime

\* mutant: the engine's flag not consulted
NotReadyCameraOnly(cameraSet, engineInitialized) == ~cameraSet

\* the guard updateGaze returns on before it reads anything
NotReady(cameraSet, engineInitialized) == ~cameraSet \/ ~engineInitialized

updateGaze(deltaTime, camForward, lstRad) ==
  IF NotReady(camera, initialized) THEN GazeNow
  ELSE IF camForward.len = 0 THEN GazeNow
  ELSE
    LET gazeAlt == Asin(SkyY(camForward, latitude) \div camForward.len)
        gazeAz == Wrap180(camForward.ha)
    IN IF BelowMargin(gazeAlt)
       THEN [clearGaze(GazeNow) EXCEPT !.gaze = "below", !.theta = gazeAz]
       ELSE
         LET closestAbbr == ClosestFrom(1, "", GAZE_THRESHOLD_RAD,
                                        gazeAlt, gazeAz, lstRad, latitude)
             g == [GazeNow EXCEPT !.gaze = "search", !.closest = closestAbbr,
                                  !.theta = gazeAz]
         IN IF closestAbbr # g.cur
            THEN IF closestAbbr = ""
                 THEN clearGaze(g)
                 ELSE [g EXCEPT !.cur = closestAbbr,
                                !.hold = DwellOnSwitch(g.hold, deltaTime),
                                !.episodeCalls = 0]
            ELSE IF closestAbbr # ""
                 THEN LET hold == Accumulate(g.hold, deltaTime)
                      IN IF DwellReached(hold)
                         THEN [g EXCEPT !.hold = hold, !.hl = closestAbbr,
                                        !.hlCalls = Append(g.hlCalls, closestAbbr),
                                        !.episodeCalls = g.episodeCalls + 1]
                         ELSE [g EXCEPT !.hold = hold]
                 ELSE g

\* ---------------------------------------------- SkyEngine.updateStarPositions
\* mutant: the initialized guard dropped
RecomputeGuardNone(isInit) == TRUE

RecomputeGuard(isInit) == isInit

\* mutant: a fresh buffer on every call
AllocGuardAlways(length) == TRUE

AllocGuard(length) == length # Len(STARS)

\* the buffer the first call allocates
NewBuffer ==
  [i \in 1..Len(STARS) |->
     [hip |-> 0, x |-> 0, y |-> 0, z |-> 0, mag |-> 0, bv |-> 0, name |-> ""]]

\* the entries of the buffer overwritten in place, one per catalogue star
StarPositionsAt(buffer, lstRad, latRad) ==
  [i \in 1..Len(STARS) |->
     LET star == STARS[i]
         p == starCartesian(star.ra, star.dec, lstRad, latRad, SPHERE_RADIUS)
     IN [buffer[i] EXCEPT !.hip = star.hip, !.x = p[1], !.y = p[2], !.z = p[3],
                          !.mag = star.mag, !.bv = star.bv, !.name = star.name]]

\* the observer's LST and the buffer after the call, whether it ran and
\* whether it allocated the buffer
updateStarPositions ==
  IF ~RecomputeGuard(initialized)
  THEN [lst |-> lstRadians, positions |-> starPositions, ran |-> FALSE,
        allocated |-> FALSE]
  ELSE LET lstRad == localSiderealTime(gmst(julianDate(clock)), longitude)
           allocated == AllocGuard(Len(starPositions))
           buffer == IF allocated THEN NewBuffer ELSE starPositions
       IN [lst |-> lstRad,
           positions |-> StarPositionsAt(buffer, lstRad, latitude),
           ran |-> TRUE, allocated |-> allocated]

\* -------------------------------------------------------------- InfoPanel
hide == FALSE

showConstellationInfo(abbr, name) ==
  IF ~panelReady THEN isVisible
  ELSE IF abbr \notin Abbrs THEN isVisible
  ELSE TRUE

\* ------------------------------------------------------ SkyGuideMain.onStart
\* service: GeoLocation.createLocationService returned a service ("live"),
\* it threw ("throws"), or global.LocatedAtComponent is set ("null");
\* cameraObj: the scene inputs (camera, panel root, text object) are wired.
\* The pinch handlers are registered; a run of the preview, where the
\* gesture module is missing, is a run in which no pinch ever happens.
\* mutant: the flag toggled by every fix
FlagAfterFixToggle(flag) == ~flag

FlagAfterFix(flag) == IF ~flag THEN TRUE ELSE flag

OnStart(service, cameraObj) ==
  /\ ~started
  /\ started' = TRUE
  /\ frameCount' = frameCount
  \* Engine.initLocation
  /\ locationService' = IF service = "live" THEN "live" ELSE "null"
  /\ gpsPending' = IF service = "live" THEN gpsPending + 1 ELSE gpsPending
  /\ gpsCooldown' = 0
  /\ IF service = "throws"
     THEN /\ latitude' = FALLBACK_LATITUDE
          /\ longitude' = FALLBACK_LONGITUDE
          /\ headingDeg' = 0
          /\ initialized' = TRUE
     ELSE UNCHANGED <<latitude, longitude, headingDeg, initialized>>
  /\ UNCHANGED <<lstRadians, timestamp, rawHeadingDeg, starPositions>>
  \* Panel.init
  /\ panelReady' = cameraObj
  /\ isVisible' = hide
  \* Interaction.init
  /\ camera' = cameraObj
  /\ callbacks' = TRUE
  /\ gestureModule' = TRUE
  /\ UNCHANGED <<currentGazeConstellation, gazeHoldTime,
                 highlightedConstellation, envVars>>
  /\ obs' = Quiet
  /\ UNCHANGED calc

\* ------------------------------------------------- SkyEngine entry points
setObserverLocation(latDeg, lonDeg) ==
  /\ latitude' = latDeg
  /\ longitude' = lonDeg
  /\ initialized' = TRUE
  /\ UNCHANGED <<lstRadians, headingDeg, timestamp, rawHeadingDeg,
                 starPositions, locationService, gpsCooldown, gpsPending>>
  /\ UNCHANGED <<gazeVars, panelVars, mainVars, envVars>>
  /\ obs' = Quiet
  /\ UNCHANGED calc

GpsFix(latDeg, lonDeg) ==
  /\ gpsPending > 0
  /\ gpsPending' = gpsPending - 1
  /\ latitude' = latDeg
  /\ longitude' = lonDeg
  /\ timestamp' = clock
  /\ initialized' = FlagAfterFix(initialized)
  /\ UNCHANGED <<lstRadians, headingDeg, rawHeadingDeg, starPositions,
                 locationService, gpsCooldown>>
  /\ UNCHANGED <<gazeVars, panelVars, mainVars, envVars>>
  /\ obs' = Quiet
  /\ UNCHANGED calc

\* mutant: the error callback falls back the way the catch block does
GpsErrorFallsBack ==
  /\ gpsPending > 0
  /\ gpsPending' = gpsPending - 1
  /\ latitude' = FALLBACK_LATITUDE
  /\ longitude' = FALLBACK_LONGITUDE
  /\ initialized' = TRUE
  /\ UNCHANGED <<lstRadians, headingDeg, timestamp, rawHeadingDeg,
                 starPositions, locationService, gpsCooldown>>
  /\ UNCHANGED <<gazeVars, panelVars, mainVars, envVars>>
  /\ obs' = Quiet
  /\ UNCHANGED calc

GpsError ==
  /\ gpsPending > 0
  /\ gpsPending' = gpsPending - 1
  /\ UNCHANGED <<latitude, longitude, lstRadians, headingDeg, timestamp,
                 initialized, rawHeadingDeg, starPositions, locationService,
                 gpsCooldown>>
  /\ UNCHANGED <<gazeVars, panelVars, mainVars, envVars>>
  /\ obs' = Quiet
  /\ UNCHANGED calc

\* the handler subscribed to onNorthAlignedOrientationUpdate
HeadingHandler(raw) ==
  /\ locationService = "live"
  /\ rawHeadingDeg' = raw
  /\ headingDeg' = smoothHeading(headingDeg, raw, HEADING_ALPHA)
  /\ UNCHANGED <<latitude, longitude, lstRadians, timestamp, initialized,
                 starPositions, locationService, gpsCooldown, gpsPending>>
  /\ UNCHANGED <<gazeVars, panelVars, mainVars, clock>>
  /\ obs' = Quiet
  /\ UNCHANGED calc

HeadingUpdate(raw) ==
  /\ headingSamples < MaxHeadingSamples
  /\ headingSamples' = headingSamples + 1
  /\ HeadingHandler(raw)

\* ------------------------------------------------------------ UpdateEvent
\* mutant: the recompute on every frame
DueAlways(count) == TRUE

Due(count) == count % POSITION_UPDATE_INTERVAL = 0

\* the calls onUpdate makes, in order
onUpdateCalls(due) ==
  (IF due THEN <<"updateStarPositions">> ELSE <<>>)
    \o <<"updateMeshes", "updateGaze", "updatePosition", "alignToNorth">>

\* one frame: the GPS timer bound in initLocation, then SkyGuideMain.onUpdate.
\* With unbounded FALSE the frame counter and the dwell stop at MaxFrames
\* and MaxHold.  With unbounded TRUE frames go on for ever: the frame counter
\* is kept modulo positionUpdateInterval, the only way the code reads it,
\* and the dwell and the call count saturate, at values past every
\* comparison the code makes.
Frame(deltaTime, camForward, unbounded) ==
  LET cooldown == gpsCooldown + deltaTime
      poll == locationService = "live" /\ cooldown >= GPS_POLL_PERIOD
      count == frameCount + 1
      due == Due(count)
  IN /\ started
     /\ unbounded \/ frameCount < MaxFrames
     /\ poll => gpsPending < MaxPending
     /\ \E eng \in {IF due THEN updateStarPositions
                    ELSE [lst |-> lstRadians, positions |-> starPositions,
                          ran |-> FALSE, allocated |-> FALSE]} :
        \E g \in {updateGaze(deltaTime, camForward, eng.lst)} :
          /\ unbounded \/ g.hold <= MaxHold
          /\ lstRadians' = eng.lst
          /\ starPositions' = eng.positions
          /\ currentGazeConstellation' = g.cur
          /\ gazeHoldTime' = (IF unbounded THEN Min(g.hold, MaxHold) ELSE g.hold)
          /\ highlightedConstellation' = g.hl
          /\ isVisible' = (IF g.deselects > 0 THEN hide ELSE isVisible)
          /\ obs' = [hlCalls |-> g.hlCalls,
                     deselects |-> g.deselects, selects |-> <<>>,
                     gaze |-> g.gaze, closest |-> g.closest, theta |-> g.theta,
                     prevCur |-> currentGazeConstellation,
                     prevHold |-> gazeHoldTime,
                     recomputed |-> eng.ran,
                     episodeCalls |-> (IF unbounded THEN Min(g.episodeCalls, 2)
                                       ELSE g.episodeCalls),
                     lstLongitude |-> (IF eng.ran THEN longitude
                                       ELSE obs.lstLongitude),
                     lstComputed |-> (obs.lstComputed \/ eng.ran),
                     allocs |-> obs.allocs + (IF eng.allocated THEN 1 ELSE 0),
                     calls |-> onUpdateCalls(due), dt |-> deltaTime]
     /\ frameCount' = (IF unbounded THEN count % POSITION_UPDATE_INTERVAL
                       ELSE count)
     /\ gpsCooldown' = (IF locationService # "live" THEN gpsCooldown
                        ELSE IF poll THEN 0 ELSE cooldown)
     /\ gpsPending' = (IF poll THEN gpsPending + 1 ELSE gpsPending)
     /\ UNCHANGED <<latitude, longitude, headingDeg, timestamp, initialized,
                    rawHeadingDeg, locationService>>
     /\ UNCHANGED <<camera, callbacks, gestureModule, panelReady, started,
                    envVars, calc>>

UpdateEvent(deltaTime, camForward) == Frame(deltaTime, camForward, FALSE)

\* --------------------------------------------------------- pinch gestures
\* mutant: the two arguments in the other order
SelectedSwapped(c) == <<c.name, c.abbr>>

\* the arguments onConstellationSelected is invoked with
Selected(c) == <<c.abbr, c.name>>

RightPinch ==
  /\ gestureModule
  /\ LET matches == {i \in 1..Len(CONSTELLATIONS) :
                       CONSTELLATIONS[i].abbr = currentGazeConstellation}
         found == currentGazeConstellation # "" /\ matches # {} /\ callbacks
         args == Selected(CONSTELLATIONS[CHOOSE i \in matches :
                                           \A j \in matches : i <= j])
     IN /\ isVisible' = (IF found THEN showConstellationInfo(args[1], args[2])
                         ELSE isVisible)
        /\ obs' = [Quiet EXCEPT !.selects = IF found THEN <<args>> ELSE <<>>]
  /\ UNCHANGED <<engineVars, gazeVars, panelReady, mainVars, envVars, calc>>

\* mutant: the dismiss also clears the gaze
LeftPinchClears ==
  /\ gestureModule
  /\ isVisible' = (IF callbacks THEN hide ELSE isVisible)
  /\ obs' = [Quiet EXCEPT !.deselects = IF callbacks THEN 1 ELSE 0]
  /\ currentGazeConstellation' = ""
  /\ gazeHoldTime' = 0
  /\ highlightedConstellation' = ""
  /\ UNCHANGED <<engineVars, camera, callbacks, gestureModule, panelReady,
                 mainVars, envVars, calc>>

LeftPinch ==
  /\ gestureModule
  /\ isVisible' = (IF callbacks THEN hide ELSE isVisible)
  /\ obs' = [Quiet EXCEPT !.deselects = IF callbacks THEN 1 ELSE 0]
  /\ UNCHANGED <<engineVars, gazeVars, panelReady, mainVars, envVars, calc>>

\* ------------------------------------------------------------ environment
ClockAdvance ==
  /\ clock < MaxClock
  /\ clock' = clock + 1
  /\ UNCHANGED <<engineVars, gazeVars, panelVars, mainVars, headingSamples>>
  /\ obs' = Quiet
  /\ UNCHANGED calc

Next ==
  \/ \E service \in {"live", "throws", "null"}, cameraObj \in BOOLEAN :
       OnStart(service, cameraObj)
  \/ \E fix \in GpsFixes : setObserverLocation(fix[1], fix[2])
  \/ \E fix \in GpsFixes : GpsFix(fix[1], fix[2])
  \/ GpsError
  \/ \E raw \in RawHeadings : HeadingUpdate(raw)
  \/ \E deltaTime \in DeltaTimes, camForward \in CamForwards :
       UpdateEvent(deltaTime, camForward)
  \/ RightPinch
  \/ LeftPinch
  \/ ClockAdvance

Spec == Init /\ [][Next]_vars

\* ------------------------------------------- parseConstellationJSON
\* Coordinates of this part are in millionths of a radian; the centroid is
\* stored rounded to four decimals, CENTROID_UNIT millionths.
\* starsByHip: the stars that passed the brightness cutoff
starsByHip ==
  [h \in {1, 2, 3} |->
     IF h = 1 THEN [ra |-> 10050, dec |-> -20000]
     ELSE IF h = 2 THEN [ra |-> 30075, dec |-> 40050]
     ELSE [ra |-> 1000000, dec |-> 0]]

\* the pairs of one polyline chain, from position i on
RECURSIVE chainPairs(_, _)
chainPairs(chain, i) ==
  IF i + 1 > Len(chain) THEN <<>>
  ELSE (IF chain[i] > 0 /\ chain[i + 1] > 0
        THEN << <<chain[i], chain[i + 1]>> >> ELSE <<>>)
       \o chainPairs(chain, i + 1)

RECURSIVE segmentsOf(_)
segmentsOf(lines) ==
  IF lines = <<>> THEN <<>>
  ELSE chainPairs(Head(lines), 1) \o segmentsOf(Tail(lines))

\* mutant: every reference kept
SetAddAgain(hips, h) == Append(hips, h)

\* Set.add: the members in insertion order, each once
SetAdd(hips, h) ==
  IF \E i \in 1..Len(hips) : hips[i] = h THEN hips ELSE Append(hips, h)

RECURSIVE uniqueHipsOf(_, _)
uniqueHipsOf(segments, hips) ==
  IF segments = <<>> THEN hips
  ELSE uniqueHipsOf(Tail(segments),
                    SetAdd(SetAdd(hips, Head(segments)[1]), Head(segments)[2]))

\* <<sumRA, sumDec, count>> over the members found in starsByHip
RECURSIVE memberSums(_, _)
memberSums(hips, acc) ==
  IF hips = <<>> THEN acc
  ELSE IF Head(hips) \in DOMAIN starsByHip
       THEN memberSums(Tail(hips),
                       <<acc[1] + starsByHip[Head(hips)].ra,
                         acc[2] + starsByHip[Head(hips)].dec, acc[3] + 1>>)
       ELSE memberSums(Tail(hips), acc)

\* Math.round(num / den * 10000) / 10000, for den > 0
roundStored(num, den) ==
  ((2 * num + den * CENTROID_UNIT) \div (2 * den * CENTROID_UNIT)) * CENTROID_UNIT

\* what one entry of the index contributes: nothing, or one constellation
parseConstellationJSON(entry) ==
  IF entry.iau = "" THEN [pushed |-> FALSE]
  ELSE LET segments == segmentsOf(entry.lines)
       IN IF Len(segments) = 0 THEN [pushed |-> FALSE]
          ELSE LET sums == memberSums(uniqueHipsOf(segments, <<>>), <<0, 0, 0>>)
                   centroidRA == IF sums[3] > 0 THEN roundStored(sums[1], sums[3]) ELSE 0
                   centroidDec == IF sums[3] > 0 THEN roundStored(sums[2], sums[3]) ELSE 0
               IN [pushed |-> TRUE, abbr |-> entry.iau, lines |-> segments,
                   centroidRA |-> centroidRA, centroidDec |-> centroidDec]

\* ------------------------------------------------- the pure functions
\* headings in hundredths of a degree, smoothing factors in percent
HeadingInputs == {0, 100, 9000, 17900, 18000, 18100, 27000, 35900}
AlphaInputs == {0, 15, 50, 100}

\* magnitudes in hundredths: brighter than Sirius, the catalogue's range,
\* the cutoff and beyond
MagnitudeInputs == {-400, -200, -151, -150, -146, 0, 18, 87, 499, 500, 650, 1000}

\* polyline chains of star identifiers: 9 is a star below the brightness
\* cutoff, 0 an invalid identifier
ParseChains ==
  { <<1, 2>>, <<2, 1>>, <<1, 2, 3>>, <<1, 2, 1>>, <<3, 9, 1>>, <<9, 9>>,
    <<0, 1>>, <<2>> }

ParseEntries ==
  {[iau |-> a, lines |-> l] :
     a \in {"", "ORI"},
     l \in {<<c>> : c \in ParseChains}
            \cup {<<c1, c2>> : c1 \in ParseChains, c2 \in ParseChains}}

programVars == <<engineVars, gazeVars, panelVars, mainVars, envVars, obs>>

ParseCall(entry) ==
  /\ calc' = [fn |-> "parseConstellationJSON", args |-> <<entry>>,
              out |-> parseConstellationJSON(entry)]
  /\ UNCHANGED programVars

\* the function at two magnitudes, the first not the dimmer one
MagnitudeToAlphaCall(mag1, mag2) ==
  /\ mag1 <= mag2
  /\ calc' = [fn |-> "magnitudeToAlpha", args |-> <<mag1, mag2>>,
              out |-> <<magnitudeToAlpha(mag1), magnitudeToAlpha(mag2)>>]
  /\ UNCHANGED programVars

MagnitudeToScaleCall(mag1, mag2) ==
  /\ mag1 <= mag2
  /\ calc' = [fn |-> "magnitudeToScale", args |-> <<mag1, mag2>>,
              out |-> <<magnitudeToScale(mag1), magnitudeToScale(mag2)>>]
  /\ UNCHANGED programVars

SmoothHeadingCall(current, target, alpha) ==
  /\ calc' = [fn |-> "smoothHeading", args |-> <<current, target, alpha>>,
              out |-> smoothHeading(current, target, alpha)]
  /\ UNCHANGED programVars

MathNext ==
  \/ \E current \in HeadingInputs, target \in HeadingInputs, alpha \in AlphaInputs :
       SmoothHeadingCall(current, target, alpha)
  \/ \E mag1 \in MagnitudeInputs, mag2 \in MagnitudeInputs :
       MagnitudeToAlphaCall(mag1, mag2)
  \/ \E mag1 \in MagnitudeInputs, mag2 \in MagnitudeInputs :
       MagnitudeToScaleCall(mag1, mag2)
  \/ \E entry \in ParseEntries : ParseCall(entry)

MathSpec == Init /\ [][MathNext]_vars

\* ------------------------------------------- the compass feed, unbounded
\* compass samples without a bound on their number: hundredths of a degree,
\* from a feed that reports [0,360) or [-180,180]
HeadingFeedSamples == {-18000, -9000, 0, 9000, 18000, 35900, 35999}

HeadingFeed(raw) ==
  /\ HeadingHandler(raw)
  /\ UNCHANGED headingSamples

HeadingStart ==
  \E service \in {"live", "throws"} : OnStart(service, TRUE)

HeadingNext ==
  \/ HeadingStart
  \/ \E raw \in HeadingFeedSamples : HeadingFeed(raw)

HeadingSpec == Init /\ [][HeadingNext]_vars

\* ------------------------------------------------ frames without end
\* The position feed is absent (createLocationService throws, or no service
\* is created) and the engine keeps delivering update events: OnStart once,
\* then a frame whenever one is due.
LiveDeltaTimes == {0, 3, 100}

LiveTick(deltaTime, camForward) == Frame(deltaTime, camForward, TRUE)

LiveStart ==
  \E service \in {"throws", "null"}, cameraObj \in BOOLEAN :
    OnStart(service, cameraObj)

LiveFrames ==
  \E deltaTime \in LiveDeltaTimes, camForward \in CamForwards :
    LiveTick(deltaTime, camForward)

LiveNext == LiveStart \/ LiveFrames

LiveSpec ==
  Init /\ [][LiveNext]_vars /\ WF_vars(LiveStart) /\ WF_vars(LiveFrames)

\* ===================================================================
\* Properties
\* ===================================================================
Regions == 1..Len(CONSTELLATIONS)

\* horizontal coordinates of centroid i for the observer fields of the state
CentroidAt(i) ==
  equatorialToHorizontal(CONSTELLATIONS[i].centroidRA,
                         CONSTELLATIONS[i].centroidDec, lstRadians, latitude)

AboveHorizon == {i \in Regions : CentroidAt(i)[1] >= 0}

\* altitude of the direction the camera pointed at in the last updateGaze
GazeAltitude == Asin((Cos(latitude) * Cos(obs.theta)) \div ONE)

\* arc from that direction to centroid i
GazeDistance(i) == Abs(Wrap180(CentroidAt(i)[2] - obs.theta))

IsFrame == frameCount' # frameCount

Searched == obs.gaze = "search"

\* ---- C1 -----------------------------------------------------------------
\* C1 as stated: within one match episode setHighlightedConstellation(region)
\* is called exactly once, never again on a later tick of the episode.
C1_OneCallPerEpisode == obs.episodeCalls <= 1

\* C1 amended: on the ticks of an episode that accumulate dwell, the call
\* is made exactly when the dwell has reached GAZE_HOLD_DELAY: first on the
\* tick at which the dwell first reaches it, and again on every later tick
\* of the episode, where it leaves highlightedConstellation unchanged.
C1_ConfirmEachTickIdempotent ==
  [][ (IsFrame /\ obs'.gaze = "search" /\ obs'.closest # ""
       /\ obs'.closest = currentGazeConstellation)
      => /\ (obs'.hlCalls = <<currentGazeConstellation>>)
              <=> (gazeHoldTime' >= GAZE_HOLD_DELAY)
         /\ (gazeHoldTime' < GAZE_HOLD_DELAY) => (obs'.hlCalls = <<>>)
         /\ (gazeHoldTime < GAZE_HOLD_DELAY /\ gazeHoldTime' >= GAZE_HOLD_DELAY)
              => /\ obs'.episodeCalls = 1
                 /\ highlightedConstellation' = currentGazeConstellation
         /\ (gazeHoldTime >= GAZE_HOLD_DELAY)
              => /\ obs'.episodeCalls = obs.episodeCalls + 1
                 /\ highlightedConstellation = currentGazeConstellation
                 /\ highlightedConstellation' = highlightedConstellation ]_vars

C1_Witness ==
  /\ obs.episodeCalls = 2
  /\ obs.hlCalls = <<currentGazeConstellation>>
  /\ highlightedConstellation = currentGazeConstellation

\* ---- C2 -----------------------------------------------------------------
\* C2: when the nearest region changes from A to another region B before
\* A's dwell reached GAZE_HOLD_DELAY, the tick installs B with dwell 0 and
\* A was not passed to setHighlightedConstellation in its episode.
C2_SwitchResetsDwell ==
  [][ (IsFrame /\ currentGazeConstellation # ""
       /\ gazeHoldTime < GAZE_HOLD_DELAY
       /\ obs'.gaze = "search"
       /\ obs'.closest \notin {"", currentGazeConstellation})
      => /\ currentGazeConstellation' = obs'.closest
         /\ gazeHoldTime' = 0
         /\ obs.episodeCalls = 0
         /\ obs'.hlCalls = <<>>
         /\ highlightedConstellation' = highlightedConstellation ]_vars

C2_Witness ==
  /\ Searched
  /\ obs.prevCur # "" /\ obs.prevHold > 0 /\ obs.prevHold < GAZE_HOLD_DELAY
  /\ currentGazeConstellation \notin {"", obs.prevCur}
  /\ gazeHoldTime = 0

\* ---- C3 -----------------------------------------------------------------
\* C3: whenever the nearest-region result of a tick differs from the matched
\* code (another region, or none), the gaze state is empty afterwards: dwell
\* 0 and no highlighted constellation.
C3_ResetOnChange ==
  (obs.gaze \in {"search", "below"} /\ obs.closest # obs.prevCur)
    => (gazeHoldTime = 0 /\ highlightedConstellation = "")

\* ---- C4 -----------------------------------------------------------------
\* C4: a tick without candidate clears a matched region and invokes
\* onConstellationDeselected once; a tick without candidate while nothing is
\* matched invokes nothing.
C4_DeselectOnce ==
  [][ (IsFrame /\ (obs'.gaze = "below"
                   \/ (obs'.gaze = "search" /\ obs'.closest = "")))
      => /\ currentGazeConstellation' = ""
         /\ gazeHoldTime' = 0
         /\ (currentGazeConstellation # "") => (obs'.deselects = 1)
         /\ (currentGazeConstellation = "")
              => (obs'.deselects = 0 /\ obs'.hlCalls = <<>>) ]_vars

C4_Witness ==
  /\ Searched /\ obs.closest = "" /\ obs.prevCur # ""
  /\ obs.deselects = 1 /\ currentGazeConstellation = ""

\* ---- C5 -----------------------------------------------------------------
\* C5 as stated: a region is a candidate exactly when its distance does not
\* exceed the threshold, a distance of exactly 8 degrees included.
C5_CandidateAtThreshold ==
  Searched =>
    ((obs.closest # "")
       <=> (\E i \in AboveHorizon : GazeDistance(i) <= GAZE_THRESHOLD_RAD))

\* C5 amended: there is a candidate exactly when some above-horizon centroid
\* is strictly closer than the threshold; at a minimum distance of exactly
\* 8 degrees, or more, there is none and no region is matched after the tick.
C5_CandidateBelowThreshold ==
  Searched =>
    /\ (obs.closest # "")
         <=> (\E i \in AboveHorizon : GazeDistance(i) < GAZE_THRESHOLD_RAD)
    /\ currentGazeConstellation = obs.closest

C5_Witness ==
  /\ Searched
  /\ \E i \in AboveHorizon : GazeDistance(i) = GAZE_THRESHOLD_RAD
  /\ \A i \in AboveHorizon : GazeDistance(i) >= GAZE_THRESHOLD_RAD
  /\ currentGazeConstellation = ""

\* ---- C6 -----------------------------------------------------------------
\* C6: a tick whose pointing altitude is below -5 degrees ends with no
\* region matched, whatever the centroid distances, and a region matched
\* before it is cleared with one deselect notification.
C6_SubHorizonClears ==
  [][ (IsFrame /\ obs'.gaze \in {"search", "below"}
       /\ GazeAltitude' < -SUB_HORIZON_MARGIN)
      => /\ obs'.gaze = "below"
         /\ currentGazeConstellation' = ""
         /\ gazeHoldTime' = 0
         /\ (currentGazeConstellation # "")
              => (obs'.deselects = 1 /\ obs'.hlCalls = <<"">>
                  /\ highlightedConstellation' = "") ]_vars

C6_Witness ==
  /\ obs.gaze = "below"
  /\ GazeAltitude < -SUB_HORIZON_MARGIN
  /\ \E i \in AboveHorizon : GazeDistance(i) < GAZE_THRESHOLD_RAD
  /\ obs.prevCur # "" /\ obs.deselects = 1

\* ---- C7 -----------------------------------------------------------------
\* C7: after a centroid search, the candidate is an above-horizon region
\* within the threshold that no other above-horizon region is closer than;
\* a region whose centroid is below the horizon is never the candidate.
C7_NearestAboveHorizon ==
  Searched =>
    /\ (obs.closest # "") =>
         \E i \in AboveHorizon :
           /\ CONSTELLATIONS[i].abbr = obs.closest
           /\ \A j \in AboveHorizon : GazeDistance(i) <= GazeDistance(j)
    /\ (\E j \in AboveHorizon : GazeDistance(j) < GAZE_THRESHOLD_RAD)
         => (obs.closest # "")

C7_Witness ==
  /\ Searched
  /\ \E j \in Regions \ AboveHorizon :
       /\ GazeDistance(j) < GAZE_THRESHOLD_RAD
       /\ \A i \in AboveHorizon : GazeDistance(j) < GazeDistance(i)
  /\ obs.closest = ""

\* ---- C8 -----------------------------------------------------------------
\* C8, for the ticks whose LST has been computed: the LST the centroid
\* search reads was computed from the longitude that is stored with the
\* latitude it reads.
C8_ConsistentSnapshot ==
  (Searched /\ obs.lstComputed) => (obs.lstLongitude = longitude)

\* ---- C9 -----------------------------------------------------------------
\* C9: once initialized is true it is true in every later state.
C9_InitializedStable == [][initialized => initialized']_vars

C9_Witness ==
  /\ initialized
  /\ locationService = "live" /\ gpsPending = 0 /\ timestamp > 0
  /\ headingSamples > 0 /\ frameCount > 0

\* ---- C10 ----------------------------------------------------------------
\* C10: a frame that calls updateStarPositions while the observer is not
\* initialized changes neither the position buffer nor any observer field,
\* and while the observer is not initialized no position has been computed.
C10_RecomputeNoOp ==
  [][ /\ (IsFrame /\ ~initialized)
        => /\ ~obs'.recomputed
           /\ UNCHANGED <<starPositions, latitude, longitude, lstRadians,
                          headingDeg, timestamp>>
      /\ (~initialized') => (starPositions' = <<>> /\ lstRadians' = 0) ]_vars

C10_Witness ==
  /\ ~initialized /\ started
  /\ frameCount >= POSITION_UPDATE_INTERVAL
  /\ frameCount % POSITION_UPDATE_INTERVAL = 0
  /\ obs.gaze = "early"

\* ---- C11 ----------------------------------------------------------------
\* C11 as stated: getStarPositions() returns an array of the catalogue's
\* length in every state.
C11_LengthAlways == Len(starPositions) = Len(STARS)

\* C11 amended: the buffer is empty until the first recompute of an
\* initialized observer and has the catalogue's length from then on; entry
\* i carries hip, mag, bv and name of catalogue star i; and the buffer is
\* allocated once, by the first recompute, and reused by every later one.
C11_BufferStable ==
  /\ Len(starPositions) \in {0, Len(STARS)}
  /\ (Len(starPositions) = Len(STARS)) <=> obs.lstComputed
  /\ \A i \in 1..Len(starPositions) :
       /\ starPositions[i].hip = STARS[i].hip
       /\ starPositions[i].mag = STARS[i].mag
       /\ starPositions[i].bv = STARS[i].bv
       /\ starPositions[i].name = STARS[i].name
  /\ obs.allocs = (IF obs.lstComputed THEN 1 ELSE 0)

C11_Witness ==
  /\ obs.recomputed /\ frameCount = 2 * POSITION_UPDATE_INTERVAL
  /\ Len(starPositions) = Len(STARS) /\ obs.allocs = 1
  /\ lstRadians # 0

\* ---- C12 ----------------------------------------------------------------
\* C12: when initLocation ends without a location service (creating it
\* threw, or none was created), the observer is eventually initialized at
\* the fallback location with heading 0.
C12_FallbackEventually ==
  (started /\ locationService = "null")
    ~> (initialized /\ latitude = FALLBACK_LATITUDE
        /\ longitude = FALLBACK_LONGITUDE /\ headingDeg = 0)

\* ---- C13 ----------------------------------------------------------------
\* the arc between two headings, the shorter way round
CircularDistance(a, b) == Min((b - a) % 36000, (a - b) % 36000)

\* C13: for current and target in [0,360) and alpha in [0,1] the result of
\* smoothHeading is in [0,360) and lies on the shorter arc from current to
\* target, at alpha times that arc from current; alpha = 0 gives current,
\* alpha = 1 gives target, and smoothHeading(359, 1, 0.5) is 0.
C13_ShortestPath ==
  (calc.fn = "smoothHeading") =>
    LET current == calc.args[1]
        target == calc.args[2]
        alpha == calc.args[3]
        result == calc.out
    IN /\ result \in 0..35999
       /\ 100 * CircularDistance(current, result)
            = alpha * CircularDistance(current, target)
       /\ CircularDistance(current, result) + CircularDistance(result, target)
            = CircularDistance(current, target)
       /\ 100 * CircularDistance(current, result) <= alpha * 18000
       /\ (alpha = 0) => (result = current)
       /\ (alpha = 100) => (result = target)
       /\ (current = 35900 /\ target = 100 /\ alpha = 50) => (result = 0)

C13_Witness ==
  /\ calc.fn = "smoothHeading"
  /\ calc.args = <<35900, 100, 50>>
  /\ calc.out = 0

\* ---- C14 ----------------------------------------------------------------
\* C14: the smoothed heading of the observer is at least 0 and less than
\* 360 degrees in every reachable state, whatever compass samples arrived.
C14_HeadingInRange == headingDeg >= 0 /\ headingDeg < 36000

C14_Witness ==
  /\ locationService = "live"
  /\ rawHeadingDeg = 35900
  /\ headingDeg > 35900

\* ---- C15 ----------------------------------------------------------------
\* C15: localSiderealTime returns a value in [0, 2 pi) for every Greenwich
\* sidereal time in [0, 2 pi) and every longitude in [-pi, pi], negative
\* sums included, and the local sidereal time stored in the observer is in
\* [0, 2 pi) in every reachable state.
LstOfEveryInput ==
  \A gmstRad \in 0..(TWO_PI - 1), longitudeRad \in -180..180 :
    /\ localSiderealTime(gmstRad, longitudeRad) >= 0
    /\ localSiderealTime(gmstRad, longitudeRad) < TWO_PI

C15_LstInRange ==
  /\ lstRadians >= 0 /\ lstRadians < TWO_PI
  /\ obs.recomputed =>
       \E k \in {-1, 0, 1} :
         lstRadians = gmst(julianDate(clock)) + longitude + k * TWO_PI
  /\ LstOfEveryInput

C15_Witness ==
  /\ obs.recomputed
  /\ gmst(julianDate(clock)) + longitude < 0
  /\ lstRadians = gmst(julianDate(clock)) + longitude + TWO_PI

\* ---- C16 ----------------------------------------------------------------
\* C16 as stated: for every magnitude magnitudeToAlpha is within
\* [0.15, 1.0] and magnitudeToScale within [0.5, 3.0], and both are
\* non-increasing in the magnitude.
C16_RangeEveryInput ==
  /\ (calc.fn = "magnitudeToAlpha") =>
       /\ \A i \in 1..2 : calc.out[i] >= ALPHA_FLOOR /\ calc.out[i] <= ALPHA_CEILING
       /\ calc.out[1] >= calc.out[2]
  /\ (calc.fn = "magnitudeToScale") =>
       /\ \A i \in 1..2 : calc.out[i] >= SCALE_FLOOR /\ calc.out[i] <= SCALE_CEILING
       /\ calc.out[1] >= calc.out[2]

\* C16 amended: for every magnitude both results are at least their floors
\* (0.15 and 0.5) and non-increasing in the magnitude; they are at most
\* their ceilings (1.0 and 3.0) for magnitudes of -1.5 or dimmer; a
\* brighter input can exceed them, since only the floor is clamped:
\* magnitude -2 gives alpha 1600/1500 and scale 3.1925.
C16_FloorsAndCeilings ==
  /\ (calc.fn = "magnitudeToAlpha") =>
       /\ \A i \in 1..2 :
            /\ calc.out[i] >= ALPHA_FLOOR
            /\ (calc.args[i] >= BRIGHTEST_MAG) => (calc.out[i] <= ALPHA_CEILING)
            /\ (calc.args[i] = -200) => (calc.out[i] = 1600)
       /\ calc.out[1] >= calc.out[2]
  /\ (calc.fn = "magnitudeToScale") =>
       /\ \A i \in 1..2 :
            /\ calc.out[i] >= SCALE_FLOOR
            /\ (calc.args[i] >= BRIGHTEST_MAG) => (calc.out[i] <= SCALE_CEILING)
            /\ (calc.args[i] = -200) => (calc.out[i] = 319250)
       /\ calc.out[1] >= calc.out[2]

C16_Witness ==
  /\ calc.fn = "magnitudeToScale"
  /\ calc.args[1] < BRIGHTEST_MAG /\ calc.out[1] > SCALE_CEILING
  /\ calc.args[2] > 500 /\ calc.out[2] = SCALE_FLOOR

\* ---- C17 ----------------------------------------------------------------
\* the distinct identifiers the segments of an entry reference
Referenced(lines) ==
  {h \in 0..9 :
     \E c \in 1..Len(lines) : \E i \in 1..(Len(lines[c]) - 1) :
       /\ lines[c][i] > 0 /\ lines[c][i + 1] > 0
       /\ h \in {lines[c][i], lines[c][i + 1]}}

RECURSIVE SumRA(_)
SumRA(hips) ==
  IF hips = {} THEN 0
  ELSE LET h == CHOOSE x \in hips : TRUE
       IN starsByHip[h].ra + SumRA(hips \ {h})

RECURSIVE SumDec(_)
SumDec(hips) ==
  IF hips = {} THEN 0
  ELSE LET h == CHOOSE x \in hips : TRUE
       IN starsByHip[h].dec + SumDec(hips \ {h})

\* C17: the centroid stored for a region is the unweighted mean, to the
\* four decimals it is stored with, of the coordinates of the distinct
\* identifiers its segments reference that are in the catalogue: an
\* identifier referenced several times counts once, one absent from the
\* catalogue does not count, and with none present the centroid is (0,0).
C17_CentroidIsMean ==
  (calc.fn = "parseConstellationJSON" /\ calc.out.pushed) =>
    LET members == Referenced(calc.args[1].lines) \cap DOMAIN starsByHip
        n == Cardinality(members)
    IN /\ (n = 0) => (calc.out.centroidRA = 0 /\ calc.out.centroidDec = 0)
       /\ (n > 0) =>
            /\ calc.out.centroidRA % CENTROID_UNIT = 0
            /\ calc.out.centroidDec % CENTROID_UNIT = 0
            /\ 2 * Abs(n * calc.out.centroidRA - SumRA(members))
                 <= n * CENTROID_UNIT
            /\ 2 * Abs(n * calc.out.centroidDec - SumDec(members))
                 <= n * CENTROID_UNIT

C17_Witness ==
  /\ calc.fn = "parseConstellationJSON" /\ calc.out.pushed
  /\ calc.args[1].lines = << <<1, 2, 1>>, <<3, 9, 1>> >>
  /\ calc.out.centroidRA = 346700

\* ---- C18 ----------------------------------------------------------------
\* positions of a call among the calls the last frame made
CallsOf(name) == {i \in 1..Len(obs.calls) : obs.calls[i] = name}

\* C18: every frame calls updateGaze exactly once, with the elapsed time of
\* that frame (a dwell that accumulates grows by exactly that time); it
\* calls updateStarPositions exactly on the frames whose count is a
\* multiple of positionUpdateInterval, and then before updateGaze.
C18_DriverCalls ==
  (obs.calls # <<>>) =>
    /\ Cardinality(CallsOf("updateGaze")) = 1
    /\ obs.gaze # "none"
    /\ obs.dt \in DeltaTimes
    /\ (Searched /\ obs.closest # "" /\ obs.closest = obs.prevCur)
         => (gazeHoldTime = obs.prevHold + obs.dt)
    /\ Cardinality(CallsOf("updateStarPositions"))
         = (IF frameCount % POSITION_UPDATE_INTERVAL = 0 THEN 1 ELSE 0)
    /\ \A i \in CallsOf("updateStarPositions"), j \in CallsOf("updateGaze") : i < j
    /\ obs.recomputed => (CallsOf("updateStarPositions") # {})

C18_Witness ==
  /\ frameCount = 2 * POSITION_UPDATE_INTERVAL
  /\ obs.calls[1] = "updateStarPositions" /\ obs.calls[3] = "updateGaze"
  /\ obs.recomputed
  /\ Searched /\ obs.closest # "" /\ obs.closest = obs.prevCur
  /\ obs.prevHold > 0 /\ gazeHoldTime = obs.prevHold + obs.dt

\* ---- C20 ----------------------------------------------------------------
\* C20: if from some frame on every frame finds the same region R nearest
\* within the threshold and has a positive elapsed time, then from some
\* frame on R is the highlighted constellation, and stays it.
C20_DwellConfirms ==
  \A R \in Abbrs :
    <>[](Searched /\ obs.closest = R /\ obs.dt > 0)
      => <>[](highlightedConstellation = R)

C20_Witness ==
  /\ Searched /\ obs.closest # "" /\ obs.dt > 0
  /\ obs.prevCur = obs.closest /\ obs.prevHold = MaxHold
  /\ gazeHoldTime = MaxHold
  /\ highlightedConstellation = obs.closest
  /\ obs.episodeCalls = 2

\* ---- C21 ----------------------------------------------------------------
\* C21: in every reachable state, if no region is matched then the dwell
\* is 0 and no constellation is highlighted; so a highlighted constellation
\* implies a matched region.
C21_GazeFieldsConsistent ==
  /\ (currentGazeConstellation = "")
       => (gazeHoldTime = 0 /\ highlightedConstellation = "")
  /\ (highlightedConstellation # "") => (currentGazeConstellation # "")

C21_Witness ==
  /\ obs.gaze \in {"search", "below"}
  /\ obs.prevCur # "" /\ obs.prevHold >= GAZE_HOLD_DELAY
  /\ obs.hlCalls = <<"">>
  /\ currentGazeConstellation = "" /\ gazeHoldTime = 0
  /\ highlightedConstellation = ""

\* ---- C22 ----------------------------------------------------------------
\* C22: whenever updateGaze has searched the centroids, the local sidereal
\* time it read had been computed by updateStarPositions, in that frame or
\* an earlier one; it is never the placeholder the observer starts with.
C22_LstComputedBeforeMatch == Searched => obs.lstComputed

\* ---- C23 ----------------------------------------------------------------
\* C23: the tick on which a region becomes the candidate leaves the dwell
\* at 0 and calls setHighlightedConstellation for no region, whatever its
\* elapsed time; and a tick that confirms a region R found R already the
\* candidate and counted its own elapsed time on top of the dwell it found.
Installed == Searched /\ obs.closest # "" /\ obs.closest # obs.prevCur

C23_InstallNeverConfirms ==
  /\ Installed => (/\ currentGazeConstellation = obs.closest
                   /\ gazeHoldTime = 0
                   /\ obs.hlCalls = <<>>)
  /\ \A R \in Abbrs :
       (obs.gaze # "none" /\ obs.hlCalls = <<R>>)
         => (/\ obs.prevCur = R /\ obs.closest = R
             /\ gazeHoldTime = obs.prevHold + obs.dt)

C23_Witness ==
  /\ Installed /\ obs.dt >= GAZE_HOLD_DELAY
  /\ gazeHoldTime = 0 /\ obs.hlCalls = <<>>
  /\ highlightedConstellation # obs.closest

\* ---- C24 ----------------------------------------------------------------
\* C24: in every reachable state, a visible info panel implies a matched
\* region.
C24_VisibleImpliesMatched == isVisible => currentGazeConstellation # ""

\* the panel stayed up over a frame that switched from one region to another
C24_Witness ==
  /\ isVisible /\ Installed /\ obs.prevCur # ""
  /\ currentGazeConstellation = obs.closest

\* ---- C25 ----------------------------------------------------------------
\* C25: onConstellationSelected is invoked only by a right pinch made while
\* a region is matched, and then with the abbr and the name of that region;
\* a right pinch made while no region is matched invokes nothing and
\* changes nothing of the program's state.
NameOf(abbr) ==
  CONSTELLATIONS[CHOOSE i \in Regions : CONSTELLATIONS[i].abbr = abbr].name

C25_SelectOnlyByRightPinch ==
  [][/\ (obs'.selects # <<>>)
          => (/\ RightPinch
              /\ currentGazeConstellation # ""
              /\ obs'.selects = << <<currentGazeConstellation,
                                     NameOf(currentGazeConstellation)>> >>)
     /\ (RightPinch /\ currentGazeConstellation = "")
          => (/\ obs'.selects = <<>> /\ obs'.deselects = 0
              /\ obs'.hlCalls = <<>>
              /\ UNCHANGED <<engineVars, gazeVars, panelVars, mainVars>>)]_vars

C25_Witness ==
  /\ currentGazeConstellation = "TAU"
  /\ obs.selects = << <<"TAU", NameOf("TAU")>> >>
  /\ isVisible

\* ---- C26 ----------------------------------------------------------------
\* C26: a left pinch invokes the deselect callback once, which hides the
\* panel, and leaves the matched region, the dwell and the highlight as
\* they were.
C26_LeftPinchKeepsGaze ==
  [][LeftPinch
       => (/\ obs'.deselects = 1 /\ ~isVisible'
           /\ obs'.selects = <<>> /\ obs'.hlCalls = <<>>
           /\ UNCHANGED <<currentGazeConstellation, gazeHoldTime,
                          highlightedConstellation>>)]_vars

\* a dismiss of a panel shown for a confirmed region: the region is still
\* matched and highlighted after it
C26_Witness ==
  /\ obs.gaze = "none" /\ obs.deselects = 1
  /\ ~isVisible
  /\ currentGazeConstellation # "" /\ gazeHoldTime >= GAZE_HOLD_DELAY
  /\ highlightedConstellation = currentGazeConstellation

\* ---- C27 ----------------------------------------------------------------
\* C27: a frame whose updateGaze finds no camera or an engine that is not
\* initialized returns early, and so does one with a forward vector of no
\* length; a frame whose updateGaze returns early leaves the matched
\* region, the dwell, the highlight and the panel as they were and invokes
\* no callback and no highlight call.
C27_EarlyReturnKeepsGaze ==
  [][IsFrame
       => (/\ (~camera \/ ~initialized) => obs'.gaze = "early"
           /\ (obs'.gaze = "early")
                => (/\ UNCHANGED <<currentGazeConstellation, gazeHoldTime,
                                   highlightedConstellation, isVisible>>
                    /\ obs'.hlCalls = <<>> /\ obs'.deselects = 0
                    /\ obs'.selects = <<>>))]_vars

\* a frame with elapsed time and a forward vector of no length, in the
\* middle of a dwell
C27_Witness ==
  /\ obs.gaze = "early" /\ camera /\ initialized
  /\ obs.dt > 0
  /\ currentGazeConstellation # "" /\ obs.prevCur = currentGazeConstellation
  /\ gazeHoldTime > 0 /\ gazeHoldTime = obs.prevHold
  /\ obs.hlCalls = <<>> /\ obs.deselects = 0

\* ---- C28 ----------------------------------------------------------------
\* C28: a poll that ends in the error callback leaves latitude, longitude,
\* timestamp, heading, sidereal time and the initialized flag as they were;
\* a poll that ends in the success callback stores the latitude and the
\* longitude of the fix, both and exactly, stamps the observer with the
\* time of the callback and leaves heading and sidereal time alone.
C28_ErrorKeepsObserver ==
  [][/\ GpsError
          => UNCHANGED <<latitude, longitude, timestamp, headingDeg,
                         lstRadians, initialized>>
     /\ \A fix \in GpsFixes :
          GpsFix(fix[1], fix[2])
            => (/\ latitude' = fix[1] /\ longitude' = fix[2]
                /\ timestamp' = clock /\ initialized'
                /\ UNCHANGED <<headingDeg, lstRadians>>)]_vars

\* the first poll's callback has been delivered, time has passed, and the
\* observer is still as constructed: the poll ended in the error callback
C28_Witness ==
  /\ started /\ locationService = "live" /\ gpsPending = 0
  /\ clock > 0
  /\ latitude = 0 /\ longitude = 0 /\ timestamp = 0 /\ ~initialized

====
